---- MODULE Spec2Model ----
\* Real-time messaging fabric of gin-chat-room: the Hub registry
\* (internal/services/hub.go), the per-connection read and write pumps
\* (internal/websocket), the attach endpoint and the chat ingestion path.
\* Each Hub command is one step: Run handles a command to its end (or to the
\* point where the Hub goroutine blocks for good) before it receives the next.
\* The presence cache (services/redis.go) is modelled by what the fabric sees of
\* it: whether GetOnlineUsers and CacheMessage succeed, and the recent-message
\* list. In Spec and SpecOrder every cache call succeeds; SpecFaults lets them fail.
\* SpecRooms follows the two handlers that insert room_members rows (the
\* join_room frame and POST /rooms/:id/join) statement by statement; SpecToken
\* applies GenerateToken and ParseToken (auth), SpecUser the password methods of
\* models.User, to bounded inputs.
EXTENDS Bags, FiniteSets, Integers, Sequences, TLC

\* ---------------------------------------------------------------- bounds
MaxClients == 2
MaxRoom == 2
MaxMsgs == 1
MaxOrderMsgs == 2
\* capacity of Client.Send, scaled down from make(chan []byte, 256)
QueueCap == 1
\* the clock: ticks per second, ticks per hour (scaled down), the last tick of a run
TicksPerSecond == 2
HourTicks == 4
MaxTime == 6
\* config.AppConfig.JWT.ExpireTime in hours, scaled down from the default of 24
ExpireTime == 1
\* the longest password bcrypt.GenerateFromPassword takes, scaled down from 72 bytes
PasswordBytes == 2
\* ticks that may pass between GenerateToken returning and ParseToken being called
CallGap == 1
\* the default room (roomIDStr = "1"); the users have joined it over HTTP before the run
HomeRoom == 1

Clients == 1..MaxClients
\* authenticated users that may attach; the k-th client belongs to one of the first k
UserIDs == 1..MaxClients
\* rooms that exist in the store; a room_id of the attach URL is any of them
RoomIDs == 1..MaxRoom
\* the user who created the rooms over HTTP (CreateRoom) and never attaches
CreatorID == MaxClients + 1
\* room_id values a join_room frame may carry: 0, existing rooms, a missing room
JoinTargets == 0..(MaxRoom + 1)
Contents == {"hi"}
\* contents that are empty once trimmed
BlankContents == {"", " "}
\* inbound frames the reader skips: invalid JSON, a type handleMessage does not know
IgnoredKinds == {"malformed", "unknown"}

VARIABLES
    clients,    \* Hub.clients    : set of registered clients
    rooms,      \* Hub.rooms      : room id -> set of clients (keys come and go)
    users,      \* Hub.users      : user id -> client (keys come and go)
    hub,        \* the Hub goroutine: "running", "deadlocked" or "panicked"
    UserID,     \* Client.UserID
    RoomID,     \* Client.RoomID
    Send,       \* Client.Send    : buffered channel contents
    closed,     \* Client.Send has been closed
    written,    \* text messages WritePump wrote to the socket, each a batch of frames
    enq,        \* frames sent into Client.Send, in the order of the sends
    got,        \* WritePump: the frame received from Client.Send and not yet written
    rpc,        \* position of the attach handler / ReadPump of a client
    wpc,        \* position of WritePump of a client
    pend,       \* BroadcastMessage a reader is blocked sending to Hub.broadcast
    roomMembers,\* store: room_members rows, a bag (the table has no unique key but the id)
    messages,   \* store: messages rows, in insertion order
    isOnline,   \* store: users.is_online
    bcastLog,   \* frames for which the Hub performed a fan-out, in order
    cache,      \* presence cache: the recent-message list, newest first (room:messages:*)
    last,       \* the last attach request or inbound frame a handler dropped, when a run keeps it
    wsJoin,     \* handleJoinRoom of a client between its lookups and its insert
    httpJoin,   \* JoinRoom (HTTP) of a user between its checks and its insert
    now,        \* time.Now(), in ticks
    tokenString,\* the token string last generated or presented
    issued,     \* the arguments and the time of the last GenerateToken call
    claims,     \* what ParseToken returned last
    user,       \* a models.User value
    pwCalls,    \* the last SetPassword and CheckPassword calls and what they returned
    userJSON    \* the keys of the map User.ToJSON returned last

\* the variables outside the Hub, its connections and the chat store
side == <<wsJoin, httpJoin, now, tokenString, issued, claims, user, pwCalls, userJSON>>

vars == <<clients, rooms, users, hub, UserID, RoomID, Send, enq, closed, written, got,
          rpc, wpc, pend, roomMembers, messages, isOnline, bcastLog, cache, last,
          wsJoin, httpJoin, now, tokenString, issued, claims, user, pwCalls, userJSON>>

\* a room_members row, without its id and its time
RoomMember(r, u, role) == [room |-> r, user |-> u, role |-> role]

\* the (room, user) pairs that have a row in room_members
members == {<<x.room, x.user>> : x \in BagToSet(roomMembers)}

NoFrame == [type |-> "none", room |-> 0, user |-> 0, id |-> 0, content |-> ""]

\* WebSocketMessage values the Hub serialises
JoinedFrame(r, u) == [type |-> "user_joined", room |-> r, user |-> u, id |-> 0, content |-> ""]
LeftFrame(r, u) == [type |-> "user_left", room |-> r, user |-> u, id |-> 0, content |-> ""]
OnlineFrame(r, u) == [type |-> "online_users", room |-> r, user |-> u, id |-> 0, content |-> ""]
MessageFrame(m) == [type |-> "message", room |-> m.room, user |-> m.user, id |-> m.id, content |-> m.content]

\* the record of an attach request or inbound frame that its handler dropped
Event(kind, c, note) == [kind |-> kind, conn |-> c, note |-> note]
\* a run that keeps no record, and the record of a run before its first drop
Untraced == Event("off", 0, "")
NoEvent == Event("none", 0, "")

\* ---------------------------------------------------------------- tokens (auth)
\* an absent NumericDate (a nil pointer)
NoDate == 0 - 1
\* the zero Claims value, and the claims of a failed parse (nil)
NoClaims == [user_id |-> 0, username |-> <<>>, email |-> <<>>, exp |-> NoDate,
             iat |-> NoDate, nbf |-> NoDate, iss |-> "", sub |-> <<>>]
\* no signature segment
NoSig == [key |-> "", alg |-> "", payload |-> NoClaims]
\* the empty token string
NoToken == [segments |-> 0, alg |-> "", payload |-> NoClaims, sig |-> NoSig]
\* no GenerateToken call yet
NoIssue == [at |-> NoDate, user_id |-> 0, username |-> <<>>, email |-> <<>>]
\* no ParseToken call yet
NoResult == [err |-> "not parsed", claims |-> NoClaims]
\* no SetPassword and no CheckPassword call yet
NoCalls == [set |-> FALSE, password |-> <<>>, err |-> FALSE,
            check |-> FALSE, candidate |-> <<>>, ok |-> FALSE]
\* the zero models.User value, as far as the password goes
NewUser == [Password |-> <<>>]

\* no handleJoinRoom and no JoinRoom request under way
NoJoin == [room |-> 0, found |-> FALSE]
NoRequest == [pc |-> "idle", room |-> 0, password |-> ""]

\* ---------------------------------------------------------------- NewHub
Start(l) ==
    /\ clients = {}
    /\ rooms = <<>>
    /\ users = <<>>
    /\ hub = "running"
    /\ UserID = [c \in Clients |-> 0]
    /\ RoomID = [c \in Clients |-> 0]
    /\ Send = [c \in Clients |-> <<>>]
    /\ closed = [c \in Clients |-> FALSE]
    /\ written = [c \in Clients |-> <<>>]
    /\ enq = [c \in Clients |-> <<>>]
    /\ got = [c \in Clients |-> <<>>]
    /\ rpc = [c \in Clients |-> "unborn"]
    /\ wpc = [c \in Clients |-> "idle"]
    /\ pend = [c \in Clients |-> NoFrame]
    /\ roomMembers = SetToBag({RoomMember(HomeRoom, u, "member") : u \in UserIDs}
                              \cup {RoomMember(r, CreatorID, "admin") : r \in RoomIDs})
    /\ messages = <<>>
    /\ isOnline = [u \in UserIDs |-> FALSE]
    /\ bcastLog = <<>>
    /\ cache = <<>>
    /\ last = l
    /\ wsJoin = [c \in Clients |-> NoJoin]
    /\ httpJoin = [u \in UserIDs |-> NoRequest]
    /\ now = 0
    /\ tokenString = NoToken
    /\ issued = NoIssue
    /\ claims = NoResult
    /\ user = NewUser
    /\ pwCalls = NoCalls
    /\ userJSON = {}

\* NewHub, an empty store but for the memberships of the default room; no record kept
Init == Start(Untraced)

\* ---------------------------------------------------------------- map helpers
\* h.rooms[r][c] = true, creating the inner map when it is nil
RoomsAdd(rs, r, c) ==
    [k \in DOMAIN rs \cup {r} |->
        IF k = r THEN (IF r \in DOMAIN rs THEN rs[r] ELSE {}) \cup {c} ELSE rs[k]]

\* delete(room, c) and delete(h.rooms, r) when the inner map became empty
RoomsRemove(rs, r, c) ==
    IF r \notin DOMAIN rs THEN rs
    ELSE IF rs[r] \ {c} = {} THEN [k \in DOMAIN rs \ {r} |-> rs[k]]
    ELSE [rs EXCEPT ![r] = @ \ {c}]

\* h.users[u] = c
UsersPut(us, u, c) == [k \in DOMAIN us \cup {u} |-> IF k = u THEN c ELSE us[k]]

\* delete(h.users, u)
UsersDelete(us, u) == [k \in DOMAIN us \ {u} |-> us[k]]

\* ---------------------------------------------------------------- channel helpers
\* mutant of CanEnqueue: a full queue takes one more frame
CanEnqueueOver(c) == Len(Send[c]) <= QueueCap

\* the non-blocking send of a select with a default branch succeeds
CanEnqueue(c) == Len(Send[c]) < QueueCap

\* mutant of ChanSend: the frame overtakes the frames already queued
ChanSendFront(q, f) == <<f>> \o q

\* client.Send <- jsonData on a channel with room: the frame goes behind the queued ones
ChanSend(q, f) == Append(q, f)

\* sync.RWMutex is not reentrant: RLock by the goroutine that holds Lock never returns
RLockBlocks(lockHeld) == lockHeld

\* ---------------------------------------------------------------- Hub (hub.go)
\* mutant of EvictTargets: the default branch does nothing
EvictTargetsNone(rs) == {}

\* recipients of one fan-out over the room set rs whose queue is full: the default branch
EvictTargets(rs) == {c \in rs : ~CanEnqueue(c)}

\* mutant of EnqueueTargets: the iteration stops at a recipient whose queue is full
EnqueueTargetsHalting(rs) == IF EvictTargets(rs) # {} THEN {} ELSE {c \in rs : CanEnqueue(c)}

\* recipients of one fan-out over the room set rs that take the frame
EnqueueTargets(rs) == {c \in rs : CanEnqueue(c)}

\* a send on an already closed Client.Send panics
FanOutPanics(rs, cz) == \E c \in rs : cz[c]

\* mutant of DeleteEvicted: an evicted client stays in h.clients
DeleteEvictedKept(cl, evicted) == cl

\* the default branch of the fan-out, delete(h.clients, client) for each evicted client
DeleteEvicted(cl, evicted) == cl \ evicted

\* broadcastToRoom: RLock, then one non-blocking send per client of h.rooms[roomID];
\* a client whose send would block is closed and deleted from h.clients and from
\* the room map that is being iterated (h.users and an emptied room key stay).
\* cl, rs, cz: h.clients, h.rooms and the closed channels as the caller left them.
broadcastToRoom(lockHeld, roomID, frame, cl, rs, cz) ==
    IF RLockBlocks(lockHeld) THEN
        /\ hub' = "deadlocked"
        /\ clients' = cl
        /\ rooms' = rs
        /\ closed' = cz
        /\ UNCHANGED <<Send, enq, bcastLog>>
    ELSE IF roomID \notin DOMAIN rs THEN
        /\ hub' = hub
        /\ clients' = cl
        /\ rooms' = rs
        /\ closed' = cz
        /\ bcastLog' = Append(bcastLog, frame)
        /\ UNCHANGED <<Send, enq>>
    ELSE IF FanOutPanics(rs[roomID], cz) THEN
        /\ hub' = "panicked"
        /\ clients' = cl
        /\ rooms' = rs
        /\ closed' = cz
        /\ UNCHANGED <<Send, enq, bcastLog>>
    ELSE
        /\ hub' = hub
        /\ Send' = [c \in Clients |->
                      IF c \in EnqueueTargets(rs[roomID]) THEN ChanSend(Send[c], frame) ELSE Send[c]]
        /\ enq' = [c \in Clients |->
                      IF c \in EnqueueTargets(rs[roomID]) THEN ChanSend(enq[c], frame) ELSE enq[c]]
        /\ closed' = [c \in Clients |-> cz[c] \/ c \in EvictTargets(rs[roomID])]
        /\ clients' = DeleteEvicted(cl, EvictTargets(rs[roomID]))
        /\ rooms' = [rs EXCEPT ![roomID] = @ \ EvictTargets(rs[roomID])]
        /\ bcastLog' = Append(bcastLog, frame)

\* sendOnlineUsers: return when GetOnlineUsers fails (listed = FALSE); otherwise
\* one non-blocking send to the new client, close(client.Send) when full
sendOnlineUsers(c, listed, cl, rs) ==
    /\ clients' = cl
    /\ rooms' = rs
    /\ bcastLog' = bcastLog
    /\ IF ~listed THEN
            /\ hub' = hub
            /\ UNCHANGED <<Send, enq, closed>>
       ELSE IF closed[c] THEN
            /\ hub' = "panicked"
            /\ UNCHANGED <<Send, enq, closed>>
       ELSE IF CanEnqueue(c) THEN
            /\ hub' = hub
            /\ Send' = [Send EXCEPT ![c] = ChanSend(@, OnlineFrame(RoomID[c], UserID[c]))]
            /\ enq' = [enq EXCEPT ![c] = ChanSend(@, OnlineFrame(RoomID[c], UserID[c]))]
            /\ closed' = closed
       ELSE
            /\ hub' = hub
            /\ UNCHANGED <<Send, enq>>
            /\ closed' = [closed EXCEPT ![c] = TRUE]

\* registerClient (with the Run loop's receive from h.register and the attach
\* handler's start of the two pumps): Lock; add to the three maps; is_online = true;
\* notifyUserJoined, which returns early when the user row cannot be loaded and
\* otherwise calls broadcastToRoom with the write lock held; sendOnlineUsers.
\* found: the user row loads; listed: GetOnlineUsers succeeds.
registerClient(c, found, listed) ==
    /\ hub = "running"
    /\ rpc[c] = "registering"
    /\ users' = UsersPut(users, UserID[c], c)
    /\ isOnline' = [isOnline EXCEPT ![UserID[c]] = TRUE]
    /\ IF found
       THEN broadcastToRoom(TRUE, RoomID[c], JoinedFrame(RoomID[c], UserID[c]),
                            clients \cup {c}, RoomsAdd(rooms, RoomID[c], c), closed)
       ELSE sendOnlineUsers(c, listed, clients \cup {c}, RoomsAdd(rooms, RoomID[c], c))
    /\ rpc' = [rpc EXCEPT ![c] = "read"]
    /\ wpc' = [wpc EXCEPT ![c] = "run"]
    /\ UNCHANGED <<UserID, RoomID, written, got, pend, roomMembers, messages, cache, last>>
    /\ UNCHANGED side

\* unregisterClient (with the Run loop's receive from h.unregister): Lock; when the
\* client is in h.clients, delete it there, from h.rooms[client.RoomID] (dropping an
\* emptied room), delete h.users[client.UserID], close(client.Send), is_online =
\* false, then notifyUserLeft -> broadcastToRoom with the write lock held.
unregisterClient(c) ==
    /\ hub = "running"
    /\ rpc[c] \in {"unregLeave", "unregExit"}
    /\ IF c \in clients THEN
            IF closed[c] THEN
                /\ hub' = "panicked"
                /\ clients' = clients \ {c}
                /\ rooms' = RoomsRemove(rooms, RoomID[c], c)
                /\ users' = UsersDelete(users, UserID[c])
                /\ UNCHANGED <<Send, enq, closed, bcastLog, isOnline>>
            ELSE
                /\ users' = UsersDelete(users, UserID[c])
                /\ isOnline' = [isOnline EXCEPT ![UserID[c]] = FALSE]
                /\ broadcastToRoom(TRUE, RoomID[c], LeftFrame(RoomID[c], UserID[c]),
                                   clients \ {c}, RoomsRemove(rooms, RoomID[c], c),
                                   [closed EXCEPT ![c] = TRUE])
       ELSE UNCHANGED <<clients, rooms, users, hub, Send, enq, closed, bcastLog, isOnline>>
    /\ rpc' = [rpc EXCEPT ![c] = IF rpc[c] = "unregLeave" THEN "read" ELSE "done"]
    /\ UNCHANGED <<UserID, RoomID, written, got, wpc, pend, roomMembers, messages, cache, last>>
    /\ UNCHANGED side

\* Run, case message := <-h.broadcast: broadcastToRoom without any lock held; the
\* reader blocked in Hub.BroadcastMessage returns to its read loop.
HubBroadcast(c) ==
    /\ hub = "running"
    /\ rpc[c] = "bcast"
    /\ broadcastToRoom(FALSE, pend[c].room, pend[c], clients, rooms, closed)
    /\ rpc' = [rpc EXCEPT ![c] = "read"]
    /\ pend' = [pend EXCEPT ![c] = NoFrame]
    /\ UNCHANGED <<users, UserID, RoomID, written, got, wpc, roomMembers, messages, isOnline, cache, last>>
    /\ UNCHANGED side

\* ---------------------------------------------------------------- attach (handlers)
\* the record after a drop, in a run that keeps one
Seen(e) == IF last = Untraced THEN last ELSE e

DigitVal == [d \in {"0", "1", "2", "3", "4", "5", "6", "7", "8", "9"} |->
                CASE d = "0" -> 0 [] d = "1" -> 1 [] d = "2" -> 2 [] d = "3" -> 3
                  [] d = "4" -> 4 [] d = "5" -> 5 [] d = "6" -> 6 [] d = "7" -> 7
                  [] d = "8" -> 8 [] d = "9" -> 9]

\* the decimal digits of n, as the client writes a room id into the URL
RECURSIVE Digits(_)
Digits(n) == IF n < 10 THEN <<CHOOSE d \in DOMAIN DigitVal : DigitVal[d] = n>>
             ELSE Append(Digits(n \div 10), CHOOSE d \in DOMAIN DigitVal : DigitVal[d] = n % 10)

\* mutant of ParseUint: a character that is no digit counts as 0 and no error is raised
RECURSIVE ParseUintLax(_)
ParseUintLax(q) ==
    IF q = <<>> THEN 0
    ELSE ParseUintLax(SubSeq(q, 1, Len(q) - 1)) * 10
            + (IF q[Len(q)] \in DOMAIN DigitVal THEN DigitVal[q[Len(q)]] ELSE 0)

\* strconv.ParseUint(s, 10, 32) on a string given as its characters: the value, or
\* ParseError for an empty string, a character that is no digit (a sign included)
\* or a value of more than 32 bits
ParseError == 0 - 1
RECURSIVE ParseUint(_)
ParseUint(q) ==
    IF q = <<>> \/ q[Len(q)] \notin DOMAIN DigitVal THEN ParseError
    ELSE IF Len(q) = 1 THEN DigitVal[q[1]]
    ELSE LET hi == ParseUint(SubSeq(q, 1, Len(q) - 1)) IN
         IF hi = ParseError \/ hi * 10 + DigitVal[q[Len(q)]] >= 2^32 THEN ParseError
         ELSE hi * 10 + DigitVal[q[Len(q)]]

\* room_id query parameters: absent, the existing rooms, and two that do not parse
RoomParams == {<<>>} \cup {Digits(r) : r \in RoomIDs} \cup {<<"x">>, <<"-", "1">>}

\* the room id the handler works with: "1" for an absent parameter
RoomOfParam(q) == ParseUint(IF q = <<>> THEN Digits(HomeRoom) ELSE q)

\* HandleWebSocket: 401 without an authenticated user, 400 when room_id does not
\* parse, return when the upgrade fails; otherwise a fresh Client with an empty
\* Send, and the handler blocks in hub.RegisterClient. Client and user ids are
\* interchangeable, so clients attach in the order of their ids and the k-th
\* client belongs to one of the first k users.
HandleWebSocket(c, authed, u, q, upgraded) ==
    /\ hub # "panicked"
    /\ rpc[c] = "unborn"
    /\ u <= c
    /\ \A d \in Clients : d < c => rpc[d] # "unborn"
    /\ IF ~authed THEN
            /\ last' = Seen(Event("attach", 0, "401"))
            /\ UNCHANGED <<UserID, RoomID, rpc>>
       ELSE IF RoomOfParam(q) = ParseError THEN
            /\ last' = Seen(Event("attach", 0, "400"))
            /\ UNCHANGED <<UserID, RoomID, rpc>>
       ELSE IF ~upgraded THEN
            /\ last' = Seen(Event("attach", 0, "upgrade failed"))
            /\ UNCHANGED <<UserID, RoomID, rpc>>
       ELSE
            /\ last' = last
            /\ UserID' = [UserID EXCEPT ![c] = u]
            /\ RoomID' = [RoomID EXCEPT ![c] = RoomOfParam(q)]
            /\ rpc' = [rpc EXCEPT ![c] = "registering"]
    /\ UNCHANGED <<clients, rooms, users, hub, Send, enq, closed, written, got, wpc, pend,
                   roomMembers, messages, isOnline, bcastLog, cache>>
    /\ UNCHANGED side

\* ---------------------------------------------------------------- ReadPump (websocket)
\* the reader is in ReadMessage on a socket nobody has closed yet
Reading(c) == hub # "panicked" /\ rpc[c] = "read" /\ wpc[c] = "run"

\* mutant of IsMember: the membership row is not looked up
IsMemberAlways(r, u) == TRUE

\* database.DB.Where("room_id = ? AND user_id = ?", ...).First(&roomMember) finds a row
IsMember(r, u) == <<r, u>> \in members

\* mutant of StoreAborts: the error of Create is not looked at
StoreAbortsNever(createOk) == FALSE

\* if err := database.DB.Create(&message).Error; err != nil { return }
StoreAborts(createOk) == ~createOk

\* mutant of CacheAborts: an error of CacheMessage ends the handler
CacheAbortsOnError(cacheOk) == ~cacheOk

\* services.CacheMessage(...): the returned error is discarded
CacheAborts(cacheOk) == FALSE

\* handleChatMessage: membership row of (client.RoomID, client.UserID) or return;
\* Create the message row or return; CacheMessage; block in Hub.BroadcastMessage
\* with message.ToJSON(), whose id is the one Create assigned. The run holds at
\* most limit message rows.
handleChatMessage(c, content, createOk, cacheOk, limit) ==
    LET message == [id |-> IF createOk THEN Len(messages) + 1 ELSE 0, room |-> RoomID[c],
                    user |-> UserID[c], kind |-> "text", content |-> content]
    IN  /\ Reading(c)
        /\ Len(messages) < limit
        /\ IF ~IsMember(RoomID[c], UserID[c]) THEN
                /\ last' = Seen(Event("message", c, "not a member"))
                /\ UNCHANGED <<messages, cache, pend, rpc>>
           ELSE IF StoreAborts(createOk) THEN
                /\ last' = Seen(Event("message", c, "not stored"))
                /\ UNCHANGED <<messages, cache, pend, rpc>>
           ELSE
                /\ last' = last
                /\ messages' = IF createOk THEN Append(messages, message) ELSE messages
                /\ cache' = IF cacheOk THEN <<message>> \o cache ELSE cache
                /\ IF CacheAborts(cacheOk) THEN UNCHANGED <<pend, rpc>>
                   ELSE /\ pend' = [pend EXCEPT ![c] = MessageFrame(message)]
                        /\ rpc' = [rpc EXCEPT ![c] = "bcast"]
        /\ UNCHANGED <<clients, rooms, users, hub, UserID, RoomID, Send, enq, closed, written,
                       got, wpc, roomMembers, isOnline, bcastLog>>
        /\ UNCHANGED side

\* mutant of handleIgnored: the reader leaves its loop on the frame, as on a read error
handleIgnoredFatal(c, kind) ==
    /\ Reading(c)
    /\ last' = Seen(Event(kind, c, ""))
    /\ rpc' = [rpc EXCEPT ![c] = "unregExit"]
    /\ UNCHANGED <<clients, rooms, users, hub, UserID, RoomID, Send, enq, closed, written, got,
                   wpc, pend, roomMembers, messages, isOnline, bcastLog, cache>>
    /\ UNCHANGED side

\* ReadPump: json.Unmarshal fails and the loop continues ("malformed"), or
\* handleMessage falls to its default branch ("unknown")
handleIgnored(c, kind) ==
    /\ Reading(c)
    /\ last' = Seen(Event(kind, c, ""))
    /\ UNCHANGED <<clients, rooms, users, hub, UserID, RoomID, Send, enq, closed, written, got,
                   rpc, wpc, pend, roomMembers, messages, isOnline, bcastLog, cache>>
    /\ UNCHANGED side

\* handleJoinRoom: return on room_id 0 or a missing room; insert the membership row
\* when absent; client.RoomID = wsMessage.RoomID. The Hub is not told.
handleJoinRoom(c, r) ==
    /\ Reading(c)
    /\ IF r # 0 /\ r \in RoomIDs THEN
            /\ roomMembers' = IF IsMember(r, UserID[c]) THEN roomMembers
                              ELSE roomMembers (+) SetToBag({RoomMember(r, UserID[c], "member")})
            /\ RoomID' = [RoomID EXCEPT ![c] = r]
            /\ last' = last
       ELSE
            /\ last' = Seen(Event("join_room", c, "no such room"))
            /\ UNCHANGED <<roomMembers, RoomID>>
    /\ UNCHANGED <<clients, rooms, users, hub, UserID, Send, enq, closed, written, got, rpc, wpc,
                   pend, messages, isOnline, bcastLog, cache>>
    /\ UNCHANGED side

\* handleLeaveRoom: SetUserOffline, then block in Hub.UnregisterClient
handleLeaveRoom(c) ==
    /\ Reading(c)
    /\ last' = last
    /\ rpc' = [rpc EXCEPT ![c] = "unregLeave"]
    /\ UNCHANGED <<clients, rooms, users, hub, UserID, RoomID, Send, enq, closed, written, got,
                   wpc, pend, roomMembers, messages, isOnline, bcastLog, cache>>
    /\ UNCHANGED side

\* ReadPump leaves its loop on a read error (peer gone, deadline, socket closed by
\* the writer); the deferred function blocks in Hub.UnregisterClient.
ReadError(c) ==
    /\ hub # "panicked"
    /\ rpc[c] = "read"
    /\ rpc' = [rpc EXCEPT ![c] = "unregExit"]
    /\ UNCHANGED <<clients, rooms, users, hub, UserID, RoomID, Send, enq, closed, written, got,
                   wpc, pend, roomMembers, messages, isOnline, bcastLog, cache, last>>
    /\ UNCHANGED side

\* ---------------------------------------------------------------- WritePump (websocket)
\* mutant of Batch: the frames drained behind the first one are not written
BatchFirstOnly(first, rest) == first

\* the frames of one write: the frame received from client.Send, then the
\* len(client.Send) frames drained behind it, in the order of the receives
Batch(first, rest) == first \o rest

\* case message, ok := <-client.Send with ok: one frame leaves the channel
WriteRecv(c) ==
    /\ hub # "panicked"
    /\ wpc[c] = "run"
    /\ got[c] = <<>>
    /\ Send[c] # <<>>
    /\ got' = [got EXCEPT ![c] = <<Head(Send[c])>>]
    /\ Send' = [Send EXCEPT ![c] = Tail(@)]
    /\ UNCHANGED <<clients, rooms, users, hub, UserID, RoomID, enq, closed, written, rpc,
                   wpc, pend, roomMembers, messages, isOnline, bcastLog, cache, last>>
    /\ UNCHANGED side

\* NextWriter, w.Write(message), n := len(client.Send), n more receives and
\* writes, w.Close: all succeed, one text message holding the batch is on the
\* socket and the loop goes on
WriteFrames(c) ==
    /\ hub # "panicked"
    /\ wpc[c] = "run"
    /\ got[c] # <<>>
    /\ written' = [written EXCEPT ![c] = Append(@, Batch(got[c], Send[c]))]
    /\ Send' = [Send EXCEPT ![c] = <<>>]
    /\ got' = [got EXCEPT ![c] = <<>>]
    /\ UNCHANGED <<clients, rooms, users, hub, UserID, RoomID, enq, closed, rpc, wpc, pend,
                   roomMembers, messages, isOnline, bcastLog, cache, last>>
    /\ UNCHANGED side

\* the same write failing: NextWriter fails right after the receive, or w.Close
\* fails after the drain; the received frames are lost and WritePump returns
WriteFail(c, drained) ==
    /\ hub # "panicked"
    /\ wpc[c] = "run"
    /\ got[c] # <<>>
    /\ Send' = [Send EXCEPT ![c] = IF drained THEN <<>> ELSE @]
    /\ got' = [got EXCEPT ![c] = <<>>]
    /\ wpc' = [wpc EXCEPT ![c] = "done"]
    /\ UNCHANGED <<clients, rooms, users, hub, UserID, RoomID, enq, closed, written, rpc,
                   pend, roomMembers, messages, isOnline, bcastLog, cache, last>>
    /\ UNCHANGED side

\* WritePump returns from its select: the channel is closed and drained (!ok), or
\* the ping failed; the deferred function closes the socket.
WriteExit(c, pingErr) ==
    /\ hub # "panicked"
    /\ wpc[c] = "run"
    /\ got[c] = <<>>
    /\ pingErr \/ (closed[c] /\ Send[c] = <<>>)
    /\ wpc' = [wpc EXCEPT ![c] = "done"]
    /\ UNCHANGED <<clients, rooms, users, hub, UserID, RoomID, Send, enq, closed, written,
                   got, rpc, pend, roomMembers, messages, isOnline, bcastLog, cache, last>>
    /\ UNCHANGED side

\* ---------------------------------------------------------------- room membership (store)
\* rooms.is_private and rooms.password as CreateRoom stored them: the default room
\* is public, every other room is private with a password
IsPrivate(r) == r # HomeRoom
RoomPassword(r) == IF IsPrivate(r) THEN "pw" ELSE ""
\* rooms.max_members, the column default
MaxMembers == 100
\* passwords a JoinRoom request may carry: none, the right one, a wrong one
Passwords == {"", "pw", "guess"}

\* Room.GetMemberCount: the rows of the room
GetMemberCount(r) ==
    LET rows == {x \in BagToSet(roomMembers) : x.room = r}
        RECURSIVE Sum(_)
        Sum(S) == IF S = {} THEN 0
                  ELSE LET x == CHOOSE y \in S : TRUE IN CopiesIn(x, roomMembers) + Sum(S \ {x})
    IN  Sum(rows)

\* JoinRoom: room.IsPrivate && room.Password != "" && room.Password != req.Password
PasswordRejects(r, password) ==
    IsPrivate(r) /\ RoomPassword(r) # "" /\ RoomPassword(r) # password

\* database.DB.Create(&roomMember) with role member
CreateRoomMember(r, u) == roomMembers (+) SetToBag({RoomMember(r, u, "member")})

\* handleJoinRoom up to its membership lookup, as a step of its own: return on
\* room_id 0 or a missing room; look the row of (room_id, client.UserID) up
handleJoinRoomLookup(c, r) ==
    /\ Reading(c)
    /\ IF r # 0 /\ r \in RoomIDs THEN
            /\ wsJoin' = [wsJoin EXCEPT ![c] = [room |-> r, found |-> IsMember(r, UserID[c])]]
            /\ rpc' = [rpc EXCEPT ![c] = "joining"]
       ELSE UNCHANGED <<wsJoin, rpc>>
    /\ UNCHANGED <<clients, rooms, users, hub, UserID, RoomID, Send, enq, closed, written, got,
                   wpc, pend, roomMembers, messages, isOnline, bcastLog, cache, last>>
    /\ UNCHANGED <<httpJoin, now, tokenString, issued, claims, user, pwCalls, userJSON>>

\* the rest of handleJoinRoom: Create the row when the lookup found none (the
\* result of Create is not looked at; createOk: the insert succeeds), then
\* client.RoomID = wsMessage.RoomID
handleJoinRoomCreate(c, createOk) ==
    /\ hub # "panicked"
    /\ rpc[c] = "joining"
    /\ roomMembers' = IF ~wsJoin[c].found /\ createOk
                      THEN CreateRoomMember(wsJoin[c].room, UserID[c]) ELSE roomMembers
    /\ RoomID' = [RoomID EXCEPT ![c] = wsJoin[c].room]
    /\ wsJoin' = [wsJoin EXCEPT ![c] = NoJoin]
    /\ rpc' = [rpc EXCEPT ![c] = "read"]
    /\ UNCHANGED <<clients, rooms, users, hub, UserID, Send, enq, closed, written, got,
                   wpc, pend, messages, isOnline, bcastLog, cache, last>>
    /\ UNCHANGED <<httpJoin, now, tokenString, issued, claims, user, pwCalls, userJSON>>

\* JoinRoom (POST /rooms/:id/join) of an authenticated user up to its insert: 404
\* on a missing room, 409 for a member, 403 for a full room, 403 on a private
\* room's password; otherwise the request goes on to its insert
JoinRoom(u, r, password) ==
    /\ httpJoin[u].pc = "idle"
    /\ IF r \notin RoomIDs \/ IsMember(r, u) \/ GetMemberCount(r) >= MaxMembers
          \/ PasswordRejects(r, password)
       THEN httpJoin' = httpJoin
       ELSE httpJoin' = [httpJoin EXCEPT ![u] = [pc |-> "create", room |-> r, password |-> password]]
    /\ UNCHANGED <<clients, rooms, users, hub, UserID, RoomID, Send, enq, closed, written, got,
                   rpc, wpc, pend, roomMembers, messages, isOnline, bcastLog, cache, last>>
    /\ UNCHANGED <<wsJoin, now, tokenString, issued, claims, user, pwCalls, userJSON>>

\* the rest of JoinRoom: Create the row (500 when it fails), then the system
\* message of the room (models.CreateSystemMessage, user 0)
JoinRoomCreate(u, createOk) ==
    /\ httpJoin[u].pc = "create"
    /\ IF createOk THEN
            /\ roomMembers' = CreateRoomMember(httpJoin[u].room, u)
            /\ messages' = Append(messages, [id |-> Len(messages) + 1, room |-> httpJoin[u].room,
                                             user |-> 0, kind |-> "system", content |-> "joined"])
       ELSE UNCHANGED <<roomMembers, messages>>
    /\ httpJoin' = [httpJoin EXCEPT ![u] = NoRequest]
    /\ UNCHANGED <<clients, rooms, users, hub, UserID, RoomID, Send, enq, closed, written, got,
                   rpc, wpc, pend, isOnline, bcastLog, cache, last>>
    /\ UNCHANGED <<wsJoin, now, tokenString, issued, claims, user, pwCalls, userJSON>>


\* ---------------------------------------------------------------- tokens (auth)
\* config.AppConfig.JWT.Secret, and a key that is not it
Secret == "your-secret-key"
OtherSecret == "other-secret"
\* signing methods of a token header: the HMAC family and two that are not HMAC
HMACMethods == {"HS256", "HS384", "HS512"}
\* strings as sequences of bytes: an ASCII letter and a byte that is not valid UTF-8
Strings == {<<"a">>, <<"a", "xFF">>}

\* mutant of NumericDate: rounds up to the next second
NumericDateUp(t) == IF t % TicksPerSecond = 0 THEN t ELSE t + TicksPerSecond - (t % TicksPerSecond)

\* jwt.NewNumericDate: the time truncated to jwt.TimePrecision, one second
NumericDate(t) == t - (t % TicksPerSecond)

\* encoding/json on a string: every invalid byte becomes the replacement rune U+FFFD
JSONString(str) == [i \in DOMAIN str |-> IF str[i] = "xFF" THEN "uFFFD" ELSE str[i]]

\* the signature of a header and a payload: a MAC, one value per key and content
Sign(key, alg, payload) == [key |-> key, alg |-> alg, payload |-> payload]

\* GenerateToken at time t: the claims, their JSON as the payload, HS256 under the secret
GenerateToken(t, userID, username, email) ==
    LET payload == [user_id |-> userID,
                    username |-> JSONString(username),
                    email |-> JSONString(email),
                    exp |-> NumericDate(t + ExpireTime * HourTicks),
                    iat |-> NumericDate(t),
                    nbf |-> NumericDate(t),
                    iss |-> "gin-chat-room",
                    sub |-> JSONString(username)]
    IN  [segments |-> 3, alg |-> "HS256", payload |-> payload,
         sig |-> Sign(Secret, "HS256", payload)]

\* mutant of Verified: the signature is not compared
VerifiedAlways(tok) == TRUE

\* the signature of the token is the one the secret gives for its header and payload
Verified(tok) == tok.sig = Sign(Secret, tok.alg, tok.payload)

\* ParseToken at time t: jwt.ParseWithClaims with the key function that takes HMAC
\* methods only, the signature check, the validation of exp and nbf when present
\* (iat is not validated by default), then the claims
ParseToken(t, tok) ==
    IF tok.segments # 3 THEN [err |-> "token is malformed", claims |-> NoClaims]
    ELSE IF tok.alg \notin HMACMethods THEN [err |-> "unexpected signing method", claims |-> NoClaims]
    ELSE IF ~Verified(tok) THEN [err |-> "signature is invalid", claims |-> NoClaims]
    ELSE IF tok.payload.exp # NoDate /\ ~(t < tok.payload.exp)
         THEN [err |-> "token is expired", claims |-> NoClaims]
    ELSE IF tok.payload.nbf # NoDate /\ t < tok.payload.nbf
         THEN [err |-> "token is not valid yet", claims |-> NoClaims]
    ELSE [err |-> "", claims |-> tok.payload]

\* the token the last GenerateToken call returned (the empty string before it)
IssuedToken ==
    IF issued = NoIssue THEN NoToken
    ELSE GenerateToken(issued.at, issued.user_id, issued.username, issued.email)

\* kinds of token strings a request may present when tok is the token last
\* issued: tok, the empty string, text that is no token, tok with another user
\* id in its payload, tok signed under another key, tok with method none and no
\* signature, and two that only a holder of the secret can make: tok signed with
\* HS512, and tok without an expiry
PresentKinds == {"issued", "empty", "text", "payload", "key", "none", "HS512", "no exp"}

Presented(tok, kind) ==
    CASE kind = "issued" -> tok
      [] kind = "empty" -> NoToken
      [] kind = "text" -> [NoToken EXCEPT !.segments = 1]
      [] kind = "payload" -> [tok EXCEPT !.payload.user_id = @ + 1]
      [] kind = "key" -> [tok EXCEPT !.sig.key = OtherSecret]
      [] kind = "none" -> [tok EXCEPT !.alg = "none", !.sig = NoSig]
      [] kind = "HS512" -> [tok EXCEPT !.alg = "HS512", !.sig = Sign(Secret, "HS512", tok.payload)]
      [] kind = "no exp" -> [tok EXCEPT !.payload.exp = NoDate,
                                        !.sig = Sign(Secret, tok.alg, [tok.payload EXCEPT !.exp = NoDate])]

\* the variables of the Hub, its connections and the chat store
hubVars == <<clients, rooms, users, hub, UserID, RoomID, Send, enq, closed, written, got,
             rpc, wpc, pend, roomMembers, messages, isOnline, bcastLog, cache, last>>

\* time passes
Tick ==
    /\ now < MaxTime
    /\ now' = now + 1
    /\ UNCHANGED <<tokenString, issued, claims>>
    /\ UNCHANGED <<hubVars, wsJoin, httpJoin, user, pwCalls, userJSON>>

\* a call of GenerateToken, as Register and Login make it
CallGenerateToken(userID, username, email) ==
    /\ tokenString' = GenerateToken(now, userID, username, email)
    /\ issued' = [at |-> now, user_id |-> userID, username |-> username, email |-> email]
    /\ claims' = NoResult
    /\ UNCHANGED <<now, hubVars, wsJoin, httpJoin, user, pwCalls, userJSON>>

\* a request arrives with a token string in its Authorization header
Present(kind) ==
    /\ tokenString' = Presented(IssuedToken, kind)
    /\ claims' = NoResult
    /\ UNCHANGED <<now, issued, hubVars, wsJoin, httpJoin, user, pwCalls, userJSON>>

\* a call of ParseToken on the token string of the request, as AuthMiddleware makes it
CallParseToken ==
    /\ claims' = ParseToken(now, tokenString)
    /\ UNCHANGED <<now, tokenString, issued, hubVars, wsJoin, httpJoin, user, pwCalls, userJSON>>

\* ---------------------------------------------------------------- User (models)
\* the bytes of a password: two letters and the zero byte
PasswordAlphabet == {"a", "b", "NUL"}
\* the passwords tried: every string of at most one byte over the limit
PasswordsTried == UNION {[1..n -> PasswordAlphabet] : n \in 0..(PasswordBytes + 1)}
\* the salts bcrypt may draw
Salts == {"s1", "s2"}

\* mutant of Key: the key is the password repeated, without its terminating zero byte
KeyUnterminated(password) ==
    [i \in 1..PasswordBytes |->
        IF password = <<>> THEN "NUL" ELSE password[((i - 1) % Len(password)) + 1]]

\* the key material bcrypt takes from a password: the password and a terminating
\* zero byte, repeated up to the key length (blowfish.ExpandKey cycles the key)
Key(password) ==
    [i \in 1..PasswordBytes |-> (password \o <<"NUL">>)[((i - 1) % (Len(password) + 1)) + 1]]

\* the hash string of a key and a salt: version and cost, salt, digest; one
\* digest per key and salt
Hash(password, salt) == <<"$2a$10$", salt>> \o Key(password)

\* bcrypt.CompareHashAndPassword(hash, password) == nil: the hash is well formed
\* and equals the hash of the password under the salt it holds
CompareHashAndPassword(hash, password) ==
    /\ Len(hash) = 2 + PasswordBytes
    /\ hash = Hash(password, hash[2])

\* User.SetPassword: bcrypt.GenerateFromPassword fails on a password over the limit
\* and the error is returned with u.Password as it was; otherwise the hash is stored
SetPassword(password, salt) ==
    /\ IF Len(password) > PasswordBytes
       THEN /\ user' = user
            /\ pwCalls' = [NoCalls EXCEPT !.set = TRUE, !.password = password, !.err = TRUE]
       ELSE /\ user' = [user EXCEPT !.Password = Hash(password, salt)]
            /\ pwCalls' = [NoCalls EXCEPT !.set = TRUE, !.password = password]
    /\ UNCHANGED <<userJSON, hubVars, wsJoin, httpJoin, now, tokenString, issued, claims>>

\* User.CheckPassword
CheckPassword(password) ==
    /\ pwCalls' = [pwCalls EXCEPT !.check = TRUE, !.candidate = password,
                                  !.ok = CompareHashAndPassword(user.Password, password)]
    /\ UNCHANGED <<user, userJSON, hubVars, wsJoin, httpJoin, now, tokenString, issued, claims>>

\* User.ToJSON: the keys of the map
ToJSON ==
    /\ userJSON' = {"id", "username", "email", "nickname", "avatar", "is_online", "last_seen"}
    /\ UNCHANGED <<user, pwCalls, hubVars, wsJoin, httpJoin, now, tokenString, issued, claims>>

\* ---------------------------------------------------------------- specification
\* every cache call succeeds; no record of the last event is kept
Next ==
    \/ \E c \in Clients, authed \in BOOLEAN, u \in UserIDs, q \in RoomParams, up \in BOOLEAN :
            HandleWebSocket(c, authed, u, q, up)
    \/ \E c \in Clients, found \in BOOLEAN : registerClient(c, found, TRUE)
    \/ \E c \in Clients : unregisterClient(c)
    \/ \E c \in Clients : HubBroadcast(c)
    \/ \E c \in Clients, s \in Contents, ok \in BOOLEAN :
            handleChatMessage(c, s, ok, TRUE, MaxMsgs)
    \/ \E c \in Clients, k \in IgnoredKinds : handleIgnored(c, k)
    \/ \E c \in Clients, r \in JoinTargets : handleJoinRoom(c, r)
    \/ \E c \in Clients : handleLeaveRoom(c)
    \/ \E c \in Clients : ReadError(c)
    \/ \E c \in Clients : WriteRecv(c)
    \/ \E c \in Clients : WriteFrames(c)
    \/ \E c \in Clients, d \in BOOLEAN : WriteFail(c, d)
    \/ \E c \in Clients, e \in BOOLEAN : WriteExit(c, e)

Spec == Init /\ [][Next]_vars

\* Two chat messages. The state space of Spec at two messages is out of reach, so
\* this specification keeps every operation and narrows one input: a join_room
\* frame names the default room (HomeRoom), whose members all users are, which leaves the
\* membership table as it was at the start.
NextOrder ==
    \/ \E c \in Clients, authed \in BOOLEAN, u \in UserIDs, q \in RoomParams, up \in BOOLEAN :
            HandleWebSocket(c, authed, u, q, up)
    \/ \E c \in Clients, found \in BOOLEAN : registerClient(c, found, TRUE)
    \/ \E c \in Clients : unregisterClient(c)
    \/ \E c \in Clients : HubBroadcast(c)
    \/ \E c \in Clients, s \in Contents, ok \in BOOLEAN :
            handleChatMessage(c, s, ok, TRUE, MaxOrderMsgs)
    \/ \E c \in Clients, k \in IgnoredKinds : handleIgnored(c, k)
    \/ \E c \in Clients : handleJoinRoom(c, HomeRoom)
    \/ \E c \in Clients : handleLeaveRoom(c)
    \/ \E c \in Clients : ReadError(c)
    \/ \E c \in Clients : WriteRecv(c)
    \/ \E c \in Clients : WriteFrames(c)
    \/ \E c \in Clients, d \in BOOLEAN : WriteFail(c, d)
    \/ \E c \in Clients, e \in BOOLEAN : WriteExit(c, e)

SpecOrder == Init /\ [][NextOrder]_vars

\* Cache faults and blank content: GetOnlineUsers and CacheMessage may fail and a
\* message frame may carry a content that is empty once trimmed. To stay within
\* reach, a join_room frame names the default room.
NextFaults ==
    \/ \E c \in Clients, authed \in BOOLEAN, u \in UserIDs, q \in RoomParams, up \in BOOLEAN :
            HandleWebSocket(c, authed, u, q, up)
    \/ \E c \in Clients, found \in BOOLEAN, listed \in BOOLEAN : registerClient(c, found, listed)
    \/ \E c \in Clients : unregisterClient(c)
    \/ \E c \in Clients : HubBroadcast(c)
    \/ \E c \in Clients, s \in Contents \cup BlankContents, ok \in BOOLEAN, cached \in BOOLEAN :
            handleChatMessage(c, s, ok, cached, MaxMsgs)
    \/ \E c \in Clients, k \in IgnoredKinds : handleIgnored(c, k)
    \/ \E c \in Clients : handleJoinRoom(c, HomeRoom)
    \/ \E c \in Clients : handleLeaveRoom(c)
    \/ \E c \in Clients : ReadError(c)
    \/ \E c \in Clients : WriteRecv(c)
    \/ \E c \in Clients : WriteFrames(c)
    \/ \E c \in Clients, d \in BOOLEAN : WriteFail(c, d)
    \/ \E c \in Clients, e \in BOOLEAN : WriteExit(c, e)

SpecFaults == Init /\ [][NextFaults]_vars

\* Dropped inputs: the run keeps the record of the last attach request or inbound
\* frame that its handler dropped, which makes a handler that changes nothing
\* else a step of its own. To stay within reach, a join_room frame names no room
\* or a room that does not exist.
InitDrops == Start(NoEvent)

NextDrops ==
    \/ \E c \in Clients, authed \in BOOLEAN, u \in UserIDs, q \in RoomParams, up \in BOOLEAN :
            HandleWebSocket(c, authed, u, q, up)
    \/ \E c \in Clients, found \in BOOLEAN : registerClient(c, found, TRUE)
    \/ \E c \in Clients : unregisterClient(c)
    \/ \E c \in Clients : HubBroadcast(c)
    \/ \E c \in Clients, s \in Contents, ok \in BOOLEAN :
            handleChatMessage(c, s, ok, TRUE, MaxMsgs)
    \/ \E c \in Clients, k \in IgnoredKinds : handleIgnored(c, k)
    \/ \E c \in Clients, r \in JoinTargets \ RoomIDs : handleJoinRoom(c, r)
    \/ \E c \in Clients : handleLeaveRoom(c)
    \/ \E c \in Clients : ReadError(c)
    \/ \E c \in Clients : WriteRecv(c)
    \/ \E c \in Clients : WriteFrames(c)
    \/ \E c \in Clients, d \in BOOLEAN : WriteFail(c, d)
    \/ \E c \in Clients, e \in BOOLEAN : WriteExit(c, e)

SpecDrops == InitDrops /\ [][NextDrops]_vars

\* Room membership: the two paths that insert room_members rows, each in the two
\* steps between which the store can change (the handlers hold no transaction
\* and no lock), next to the attach path that brings a reader into being. No chat
\* message is sent and no pump ends.
NextRooms ==
    \/ \E c \in Clients, u \in UserIDs, q \in RoomParams :
            HandleWebSocket(c, TRUE, u, q, TRUE)
    \/ \E c \in Clients, found \in BOOLEAN : registerClient(c, found, TRUE)
    \/ \E c \in Clients, r \in JoinTargets : handleJoinRoomLookup(c, r)
    \/ \E c \in Clients, ok \in BOOLEAN : handleJoinRoomCreate(c, ok)
    \/ \E u \in UserIDs, r \in JoinTargets, password \in Passwords : JoinRoom(u, r, password)
    \/ \E u \in UserIDs, ok \in BOOLEAN : JoinRoomCreate(u, ok)

SpecRooms == Init /\ [][NextRooms]_vars

\* Tokens: GenerateToken and ParseToken applied to bounded inputs as time passes
NextToken ==
    \/ Tick
    \/ \E userID \in UserIDs, username \in Strings, email \in Strings :
            CallGenerateToken(userID, username, email)
    \/ \E kind \in PresentKinds : Present(kind)
    \/ CallParseToken

SpecToken == Init /\ [][NextToken]_vars

\* The User model: SetPassword, CheckPassword and ToJSON applied to bounded inputs
NextUser ==
    \/ \E password \in PasswordsTried, salt \in Salts : SetPassword(password, salt)
    \/ \E password \in PasswordsTried : CheckPassword(password)
    \/ ToJSON

SpecUser == Init /\ [][NextUser]_vars

\* ================================================================ properties
Range(q) == {q[i] : i \in DOMAIN q}
Count(f, q) == Cardinality({i \in DOMAIN q : q[i] = f})
\* the frames of a sequence of write batches, in the order of the writes
RECURSIVE Flat(_)
Flat(bs) == IF bs = <<>> THEN <<>> ELSE Head(bs) \o Flat(Tail(bs))
\* the frames a client was handed: already written, held by the writer or still queued
Received(c) == Flat(written[c]) \o got[c] \o Send[c]
\* the client went through registration and is no longer in h.clients
Detached(c) == rpc[c] \notin {"unborn", "registering"} /\ c \notin clients
InRoomIndex(c, rs) == \E r \in DOMAIN rs : c \in rs[r]

\* C1: registry consistency (I1): every client in h.clients is in
\* h.rooms[client.RoomID], and h.users[client.UserID] is that client.
C1_RegistryConsistency ==
    \A c \in clients :
        /\ RoomID[c] \in DOMAIN rooms
        /\ c \in rooms[RoomID[c]]
        /\ UserID[c] \in DOMAIN users
        /\ users[UserID[c]] = c

\* C2: at most one active connection per user: no two clients of h.clients
\* have the same UserID.
C2_AtMostOnePerUser ==
    \A c, d \in clients : UserID[c] = UserID[d] => c = d

\* C3: duplicate attach eviction: when the Hub registers a client whose user
\* already has a registered client, the older client leaves all three maps, its
\* Send is closed and a user_left for it is broadcast to its room.
C3_DuplicateAttachEvicts ==
    [][\A c \in Clients : (c \notin clients /\ c \in clients') =>
          \A o \in clients : UserID[o] = UserID[c] =>
              /\ o \notin clients'
              /\ ~InRoomIndex(o, rooms')
              /\ users'[UserID[c]] = c
              /\ closed'[o]
              /\ LeftFrame(RoomID[o], UserID[o]) \in Range(bcastLog')]_vars

\* C4: no broadcast observes a room mismatch: whenever the Hub fans a frame out
\* over h.rooms[r], every client found there has RoomID = r.
C4_BroadcastSeesNoMismatch ==
    [][bcastLog' # bcastLog =>
          LET r == bcastLog'[Len(bcastLog')].room IN
          r \in DOMAIN rooms => \A c \in rooms[r] : RoomID[c] = r]_vars

\* C5: join_room re-indexing: once a registered client's join_room for another
\* existing room has been handled, the client is out of the old room's set and in
\* the new room's set, and a user_left went to the old room.
C5_JoinRoomReindexes ==
    [][\A c \in clients : (rpc[c] = "read" /\ RoomID'[c] # RoomID[c]) =>
          /\ (RoomID[c] \in DOMAIN rooms' => c \notin rooms'[RoomID[c]])
          /\ RoomID'[c] \in DOMAIN rooms'
          /\ c \in rooms'[RoomID'[c]]
          /\ LeftFrame(RoomID[c], UserID[c]) \in Range(bcastLog')]_vars

\* C6: slow-consumer eviction: a recipient whose queue is full at a broadcast
\* leaves h.clients, h.rooms and h.users, its Send is closed, and a user_left for
\* its user is broadcast.
C6_SlowConsumerEvicted ==
    [][\A c \in Clients : (bcastLog' # bcastLog /\ ~closed[c] /\ closed'[c]) =>
          /\ c \notin clients'
          /\ ~InRoomIndex(c, rooms')
          /\ \A u \in DOMAIN users' : users'[u] # c
          /\ LeftFrame(RoomID[c], UserID[c]) \in Range(bcastLog')]_vars

LeftCount(u) ==
    Cardinality({i \in DOMAIN bcastLog : bcastLog[i].type = "user_left" /\ bcastLog[i].user = u})

\* C8: unregister idempotence (L1): however often unregister is processed for a
\* client, its Send is closed once (a second close would panic) and exactly one
\* user_left is broadcast per detached client.
C8_UnregisterOnce ==
    /\ hub # "panicked"
    /\ \A u \in UserIDs :
          LeftCount(u) = Cardinality({c \in Clients : Detached(c) /\ UserID[c] = u})

\* C9: message atomicity (L3): the outcome of a message frame is never split:
\* a persisted ChatRecord has been fanned out to its room or its broadcast is still
\* on its way to a Hub that can take it, and no client holds a message frame
\* without a persisted record.
C9_MessageAtomicity ==
    /\ \A i \in DOMAIN messages :
          \/ MessageFrame(messages[i]) \in Range(bcastLog)
          \/ /\ hub = "running"
             /\ \E s \in Clients : rpc[s] = "bcast" /\ pend[s] = MessageFrame(messages[i])
    /\ \A c \in Clients : \A f \in Range(Received(c)) :
          f.type = "message" => \E i \in DOMAIN messages : MessageFrame(messages[i]) = f

\* A's and B's clients are registered in room r, of different users, both members
S1Setting(a, b, r) ==
    /\ UserID[a] # UserID[b]
    /\ RoomID[a] = r
    /\ RoomID[b] = r
    /\ r \in DOMAIN rooms
    /\ {a, b} \subseteq rooms[r]
    /\ <<r, UserID[a]>> \in members
    /\ <<r, UserID[b]>> \in members

\* C10: basic delivery (S1): with A and B registered in room r and both members,
\* a message frame of A makes exactly one ChatRecord, reaches the Hub, and the Hub
\* hands exactly one message frame with that content to A's and to B's client
\* (neither being a slow consumer).
C10_BasicDelivery ==
    [][\A a, b \in clients :
          (rpc[a] = "bcast" /\ S1Setting(a, b, pend[a].room)) =>
              /\ hub = "running"
              /\ Cardinality({i \in DOMAIN messages :
                                 MessageFrame(messages[i]) = pend[a]}) = 1
              /\ pend[a].content \in Contents
              /\ (rpc'[a] = "read" /\ CanEnqueue(a) /\ CanEnqueue(b)) =>
                    /\ Count(pend[a], Flat(written'[a]) \o got'[a] \o Send'[a]) = 1
                    /\ Count(pend[a], Flat(written'[b]) \o got'[b] \o Send'[b]) = 1]_vars

\* C11: attach-to-broadcast causality (L2): every message frame authored by user
\* u that the Hub fans out in room r comes after a user_joined for u in r that
\* the Hub fanned out.
C11_JoinedBeforeMessage ==
    \A i \in DOMAIN bcastLog :
        bcastLog[i].type = "message" =>
            \E j \in 1..(i - 1) : bcastLog[j] = JoinedFrame(bcastLog[i].room, bcastLog[i].user)

\* C12: per-room broadcast order: two frames the Hub fanned out for one room,
\* in that order, were sent into the queue of every client that got both in that
\* order.
C12_PerRoomOrder ==
    \A c \in Clients : \A i, j \in DOMAIN bcastLog :
        (i < j /\ bcastLog[i].room = bcastLog[j].room) =>
            \A k, l \in DOMAIN enq[c] :
                (enq[c][k] = bcastLog[i] /\ enq[c][l] = bcastLog[j]) => k < l

\* C12 witness: two clients were both sent the first two frames of one room
C12_Witness ==
    \E c, d \in Clients :
        /\ c # d
        /\ Len(bcastLog) >= 2
        /\ bcastLog[1].room = bcastLog[2].room
        /\ {bcastLog[1], bcastLog[2]} \subseteq Range(enq[c]) \cap Range(enq[d])

IsPrefix(p, q) == Len(p) <= Len(q) /\ \A i \in DOMAIN p : p[i] = q[i]

\* C13: per-recipient FIFO (I6): the frames a writer has put on the socket, batch
\* after batch, are the first frames sent into its queue, in the order of the
\* sends; and until a write fails, these, the frame the writer holds and the
\* queued frames are all the frames sent, in that order: none is duplicated,
\* reordered or skipped.
C13_PerRecipientFIFO ==
    \A c \in Clients :
        /\ IsPrefix(Flat(written[c]), enq[c])
        /\ wpc[c] # "done" => Received(c) = enq[c]

\* C13 witness: a writer has put a batch of coalesced frames on the socket
C13_Witness ==
    \E c \in Clients : \E i \in DOMAIN written[c] : Len(written[c][i]) >= 2

\* C14: no empty rooms (I2): between two commands of the Hub, every key of
\* h.rooms maps to a non-empty set.
C14_NoEmptyRooms ==
    hub = "running" => \A r \in DOMAIN rooms : rooms[r] # {}

Before(f, g, q) == \E k, l \in DOMAIN q : k < l /\ q[k] = f /\ q[l] = g

\* C16: register postcondition and order: the step in which the Hub handles
\* register(c) leaves the Hub ready for the next command, c in the three maps and
\* its user online in the store; a user_joined for c's user has been fanned out
\* to c's room and an online_users frame sent to c, the user_joined first.
C16_RegisterPostcondition ==
    [][\A c \in Clients : (rpc[c] = "registering" /\ rpc'[c] = "read") =>
          /\ hub' = "running"
          /\ c \in clients'
          /\ RoomID[c] \in DOMAIN rooms' /\ c \in rooms'[RoomID[c]]
          /\ UserID[c] \in DOMAIN users' /\ users'[UserID[c]] = c
          /\ isOnline'[UserID[c]]
          /\ JoinedFrame(RoomID[c], UserID[c]) \in Range(bcastLog')
          /\ OnlineFrame(RoomID[c], UserID[c]) \in Range(enq'[c])
          /\ JoinedFrame(RoomID[c], UserID[c]) \in Range(enq'[c]) =>
                Before(JoinedFrame(RoomID[c], UserID[c]),
                       OnlineFrame(RoomID[c], UserID[c]), enq'[c])]_vars

\* the room set of c's room without c: the clients that remain when c is gone
Remaining(c) == IF RoomID[c] \in DOMAIN rooms THEN rooms[RoomID[c]] \ {c} ELSE {}

\* the Hub takes the unregister command of c in this step
UnregisterTaken(c) == rpc[c] \in {"unregLeave", "unregExit"} /\ rpc'[c] # rpc[c]

\* C17: unregister postcondition: the step in which the Hub handles unregister(c)
\* for a client c of h.clients leaves c in none of the three maps, c's Send
\* closed, c's user offline in the store, and a user_left for c's user sent to
\* every client that remains in c's room.
C17_UnregisterPostcondition ==
    [][\A c \in clients : UnregisterTaken(c) =>
          /\ c \notin clients'
          /\ ~InRoomIndex(c, rooms')
          /\ \A u \in DOMAIN users' : users'[u] # c
          /\ closed'[c]
          /\ ~isOnline'[UserID[c]]
          /\ \A d \in Remaining(c) :
                CanEnqueue(d) => LeftFrame(RoomID[c], UserID[c]) \in Range(enq'[d])]_vars

\* C18: leave_room detaches, as far as a finite run shows it: a registered client
\* whose reader handled a leave_room frame waits on a Hub that takes commands, and
\* the step in which the Hub takes its unregister removes it from h.clients,
\* closes its Send (on which its writer exits) and fans a user_left for its user
\* out to its room.
C18_LeaveRoomDetaches ==
    [][\A c \in clients : rpc[c] = "unregLeave" =>
          /\ hub = "running"
          /\ rpc'[c] = "read" =>
                /\ c \notin clients'
                /\ closed'[c]
                /\ LeftFrame(RoomID[c], UserID[c]) \in Range(bcastLog')]_vars

\* C19: liveness detach, as far as a finite run shows it: a registered client
\* whose reader left its loop on a read error waits in Hub.UnregisterClient on a
\* Hub that takes commands, and the step in which the Hub takes the unregister
\* lets the reader exit, removes the client from h.clients and fans a user_left
\* for its user out to its room.
C19_ReadErrorDetaches ==
    [][\A c \in clients : rpc[c] = "unregExit" =>
          /\ hub = "running"
          /\ rpc'[c] # "unregExit" =>
                /\ rpc'[c] = "done"
                /\ c \notin clients'
                /\ LeftFrame(RoomID[c], UserID[c]) \in Range(bcastLog')]_vars

\* the reader of c is blocked in a send to a channel of the Hub
BlockedOnHub(c) == rpc[c] \in {"bcast", "unregLeave", "unregExit"}

\* C20: pump termination, as far as a finite run shows it: when the writer has
\* exited, a reader blocked on the Hub has a Hub that takes its command, so that
\* it can come to its exit; when the reader has exited, the queue of a writer
\* still running is closed, so that the writer comes to its exit.
C20_PumpTermination ==
    \A c \in Clients :
        /\ (wpc[c] = "done" /\ BlockedOnHub(c)) => hub = "running"
        /\ (rpc[c] = "done" /\ wpc[c] = "run") => closed[c]

\* C21: Hub progress: the Hub goroutine is never blocked anywhere but in the
\* select on its command channels: every command Run received was handled to its
\* end, so that Run receives the next one.
C21_HubProgress ==
    hub # "deadlocked"

\* C22: empty content is dropped: no message row, no entry of the recent-message
\* cache and no message frame that the Hub fanned out has a content that is
\* empty once trimmed.
C22_BlankContentDropped ==
    /\ \A i \in DOMAIN messages : messages[i].content \notin BlankContents
    /\ \A i \in DOMAIN cache : cache[i].content \notin BlankContents
    /\ \A f \in Range(bcastLog) : f.type = "message" => f.content \notin BlankContents

\* everything but the record of the last drop
state == <<clients, rooms, users, hub, UserID, RoomID, Send, enq, closed, written, got,
           rpc, wpc, pend, roomMembers, messages, isOnline, bcastLog, cache>>

\* the handler of an inbound frame or attach request dropped it in this step
Dropped(e) == last' = e /\ last # e

\* C23: non-member rejection (S2): a message row is only ever inserted for an
\* author who is a member of the room it is for; and the step in which a reader
\* handles a message frame of a user who is not a member of the connection's
\* room changes nothing: no row, no frame to any client, the sender's queue and
\* its place in the registry as they were, its reader back in its loop.
C23_NonMemberRejected ==
    [][/\ \A i \in DOMAIN messages' \ DOMAIN messages :
              <<messages'[i].room, messages'[i].user>> \in members
       /\ \A c \in Clients : Dropped(Event("message", c, "not a member")) =>
              /\ <<RoomID[c], UserID[c]>> \notin members
              /\ state' = state
              /\ rpc'[c] = "read"]_vars

\* C23 witness: a client registered in a room its user is no member of had a
\* message frame dropped, next to a registered peer
C23_Witness ==
    \E c, d \in clients :
        /\ c # d
        /\ last = Event("message", c, "not a member")
        /\ <<RoomID[c], UserID[c]>> \notin members
        /\ messages = <<>>

\* C24: store failure aborts ingestion: the step in which a member's message
\* frame is handled and the insert of its row fails changes nothing (no cache
\* push, no frame to the Hub or to any queue, the sender's included, the registry
\* as it was); a frame is handed to the Hub, and a message is pushed to the
\* cache, only with its row stored.
C24_StoreFailureAborts ==
    [][/\ \A c \in Clients : Dropped(Event("message", c, "not stored")) =>
              /\ <<RoomID[c], UserID[c]>> \in members
              /\ state' = state
              /\ rpc'[c] = "read"
       /\ \A c \in Clients : (rpc[c] # "bcast" /\ rpc'[c] = "bcast") =>
              \E i \in DOMAIN messages' : MessageFrame(messages'[i]) = pend'[c]
       /\ \A i \in DOMAIN cache' : cache'[i] \in Range(messages')]_vars

\* C24 witness: a registered member's message frame was dropped on a failed
\* insert, and there is no row, no cache entry and no frame of it anywhere
C24_Witness ==
    \E c \in clients :
        /\ last = Event("message", c, "not stored")
        /\ <<RoomID[c], UserID[c]>> \in members
        /\ messages = <<>>
        /\ cache = <<>>
        /\ bcastLog = <<>>
        /\ \A d \in Clients : \A f \in Range(enq[d]) : f.type # "message"

\* C25: cache failure is non-fatal for ingestion: the step that stores a message
\* row hands the frame of that row to the Hub, whether the cache push took place
\* or not, and the Hub's fan-out of a frame neither reads nor changes the cache.
C25_CacheFailureNonFatal ==
    [][/\ messages' # messages =>
              \E c \in Clients :
                  /\ rpc[c] = "read" /\ rpc'[c] = "bcast"
                  /\ pend'[c] = MessageFrame(messages'[Len(messages')])
       /\ \A s \in Clients : (rpc[s] = "bcast" /\ rpc'[s] = "read") =>
              /\ bcastLog' = Append(bcastLog, pend[s])
              /\ cache' = cache]_vars

\* C25 witness: a stored message that never reached the cache is in a client's queue history
C25_Witness ==
    \E i \in DOMAIN messages : \E c \in Clients :
        /\ messages[i] \notin Range(cache)
        /\ MessageFrame(messages[i]) \in Range(enq[c])

\* C26: presence cache degradation, the part that does not rest on the lifecycle
\* broadcasts: whatever the cache calls return, a register that the Hub handles
\* to its end leaves the client in h.clients, in its room's set and in h.users,
\* and an online_users frame has been sent into the new client's queue.
C26_CacheDegradation ==
    [][\A c \in Clients : (rpc[c] = "registering" /\ rpc'[c] = "read" /\ hub' = "running") =>
          /\ c \in clients'
          /\ InRoomIndex(c, rooms')
          /\ UserID[c] \in DOMAIN users' /\ users'[UserID[c]] = c
          /\ OnlineFrame(RoomID[c], UserID[c]) \in Range(enq'[c])]_vars

C28_QueueBound ==
    \A c \in Clients : Len(Send[c]) <= QueueCap

\* C28 witness: a fan-out met a queue filled to its capacity, closed it, and the
\* queue still holds that many frames
C28_Witness ==
    \E c \in Clients :
        /\ Len(Send[c]) = QueueCap
        /\ closed[c]
        /\ c \notin clients
        /\ bcastLog # <<>>

\* C29: attach admission: a request answered with 401 (no authenticated user) or
\* 400 (room_id does not parse) changes nothing; and a client comes into being
\* only with an authenticated user and a room id that is the parsed room_id
\* parameter or the default room, and is then handed to the Hub, which has not
\* registered it yet.
C29_AttachAdmission ==
    [][/\ \A note \in {"401", "400"} : Dropped(Event("attach", 0, note)) => state' = state
       /\ \A c \in Clients : (rpc[c] = "unborn" /\ rpc'[c] # "unborn") =>
              /\ rpc'[c] = "registering"
              /\ UserID'[c] \in UserIDs
              /\ RoomID'[c] \in RoomIDs
              /\ RoomID'[c] \in {RoomOfParam(q) : q \in RoomParams}
              /\ clients' = clients /\ rooms' = rooms /\ users' = users]_vars

\* C29 witness: a request with a room_id that does not parse was answered 400
\* while a client is registered and another can still attach
C29_Witness ==
    /\ last = Event("attach", 0, "400")
    /\ clients # {}
    /\ \E c \in Clients : rpc[c] = "unborn"

\* C30: malformed or unknown inbound frames are ignored: a frame that is not valid
\* JSON, or whose type is none of message, join_room, leave_room, changes nothing:
\* registry, the connection's room id, store and every outbound queue are as
\* before, and the reader of the connection is still in its read loop.
C30_IgnoredFrames ==
    [][\A c \in Clients, k \in IgnoredKinds :
          Dropped(Event(k, c, "")) => (state' = state /\ rpc'[c] = "read")]_vars

\* C30 witness: a registered connection has just had such a frame ignored and
\* is still registered and reading
C30_Witness ==
    /\ last.kind \in IgnoredKinds
    /\ last.conn \in clients
    /\ rpc[last.conn] = "read"
    /\ messages # <<>>

\* the room_members rows of (r, u), whatever their role
RowCount(r, u) ==
    CopiesIn(RoomMember(r, u, "member"), roomMembers) + CopiesIn(RoomMember(r, u, "admin"), roomMembers)

\* C31: membership upsert on join_room: when the handling of a join_room frame
\* for an existing room r ends for user u, exactly one room_members row exists
\* for (r, u), a row that was there is left as it was, and this also holds when
\* join_room frames and HTTP join requests for the same (r, u) interleave; no
\* pair ever has two rows.
C31_MembershipUpsert ==
    [][/\ \A c \in Clients : (rpc[c] = "joining" /\ rpc'[c] = "read") =>
              /\ RowCount(wsJoin[c].room, UserID[c])' = 1
              /\ wsJoin[c].found => roomMembers' = roomMembers
       /\ \A r \in RoomIDs, u \in UserIDs : RowCount(r, u)' <= 1]_vars

\* C32: private rooms are password protected: a room_members row of a private
\* room with a password, for a user other than the creator, is only ever
\* inserted by a join request that presented the password of the room.
C32_PrivateRoomPassword ==
    [][\A r \in RoomIDs, u \in UserIDs :
          (IsPrivate(r) /\ RoomPassword(r) # "" /\ u # CreatorID
             /\ RowCount(r, u)' > RowCount(r, u)) =>
                /\ httpJoin[u].pc = "create"
                /\ httpJoin[u].room = r
                /\ httpJoin[u].password = RoomPassword(r)
                /\ httpJoin'[u] = NoRequest]_vars

\* the step is a ParseToken call, on the token string presented or issued before it
Parsed == claims = NoResult /\ claims' # NoResult

\* ParseToken is called on the token GenerateToken just returned
ParsedIssued ==
    /\ Parsed
    /\ issued # NoIssue
    /\ tokenString = IssuedToken
    /\ now - issued.at <= CallGap

\* what C33 promises of the result of such a call
RoundTrip ==
    /\ claims'.err = ""
    /\ claims'.claims.user_id = issued.user_id
    /\ claims'.claims.username = issued.username
    /\ claims'.claims.email = issued.email
    /\ now < claims'.claims.exp
    /\ claims'.claims.exp <= issued.at + ExpireTime * HourTicks

ValidUTF8(str) == \A i \in DOMAIN str : str[i] # "xFF"

Generated ==
    {GenerateToken(t, u, n, e) : t \in 0..MaxTime, u \in UserIDs, n \in Strings, e \in Strings}

\* the token carries the MAC of its own header and payload under the current secret
SignedUnderSecret(tok) ==
    /\ tok.segments = 3
    /\ tok.sig.key = Secret
    /\ tok.sig.alg = tok.alg
    /\ tok.sig.payload = tok.payload

Rejected == claims'.err # "" /\ claims'.claims = NoClaims

Plain(password) ==
    Len(password) <= PasswordBytes /\ \A i \in DOMAIN password : password[i] # "NUL"

Indexed == clients \cup UNION {rooms[r] : r \in DOMAIN rooms} \cup {users[u] : u \in DOMAIN users}

\* C36: registered connections have open queues: whenever the Hub is between
\* commands, every client in h.clients, in a set of h.rooms or a value of
\* h.users has a Send that is not closed, and the Hub never sends into a closed
\* Send.
C36_RegisteredOpen ==
    /\ hub # "panicked"
    /\ hub = "running" => \A c \in Indexed : ~closed[c]

\* C37: single close: the Send of a client is closed at most once, by whichever
\* of unregisterClient, the eviction of broadcastToRoom and sendOnlineUsers comes
\* first: no command closes a Send that is closed, under every ordering of
\* eviction, leave_room, duplicate attach and reader exit.
C37_SingleClose ==
    [][/\ \A c \in Clients : closed[c] => (closed'[c] /\ ~(UnregisterTaken(c) /\ c \in clients))
       /\ hub' # "panicked"]_vars

\* C37 witness: a client was evicted by a fan-out, which closed its Send, and the
\* unregister of its reader's exit was then taken by the Hub without a second close
C37_Witness ==
    \E c \in Clients :
        /\ closed[c]
        /\ c \notin clients
        /\ rpc[c] = "done"
        /\ hub = "running"
        /\ bcastLog # <<>>

\* C38: no dangling user index: whenever the Hub is between commands, every
\* value of h.users is a client of h.clients and every user of a client of
\* h.clients has an entry in h.users.
C38_NoDanglingUser ==
    hub = "running" =>
        /\ \A u \in DOMAIN users : users[u] \in clients
        /\ \A c \in clients : UserID[c] \in DOMAIN users

\* C39: durable presence matches the registry: whenever the Hub is between
\* commands, users.is_online of a user is true exactly when a client of that
\* user is in h.clients.
C39_PresenceMatchesRegistry ==
    hub = "running" =>
        \A u \in UserIDs : isOnline[u] <=> (\E c \in clients : UserID[c] = u)

\* C40: no ingestion from detached connections: a message frame read from the
\* socket of a client that the Hub has removed from h.clients is neither stored
\* nor handed to the Hub for broadcast.
C40_NoIngestionDetached ==
    [][\A c \in Clients : (rpc[c] = "read" /\ c \notin clients) =>
          (rpc'[c] # "bcast" /\ messages' = messages)]_vars

====
